---- MODULE Spec2Model ----
(***************************************************************************)
(* A model of analytical/templatetags/google_analytics_js.py: the          *)
(* google_analytics_js template tag, GoogleAnalyticsJsNode and             *)
(* contribute_to_analytical.                                               *)
(*                                                                         *)
(* Text is a sequence of one-character strings.  A Python value is a       *)
(* tagged record: PNone, PBool(b), PInt(n), PStr(chars), PTuple(items).    *)
(* A setting the settings module does not define is Missing.  The          *)
(* generated HTML is a sequence of statements (one record per statement    *)
(* of SETUP_CODE), so that the order of the statements can be observed.    *)
(***************************************************************************)
EXTENDS Integers, Sequences, FiniteSets, TLC

VARIABLES
    settings,   \* django.conf.settings: setting name -> Python value or Missing
    context,    \* the template context of the request being served
    nodes,      \* the GoogleAnalyticsJsNode objects constructed so far
    registry,   \* what contribute_to_analytical has passed to add_node
    last        \* the most recent call and its outcome

vars == <<settings, context, nodes, registry, last>>

(***************************************************************************)
(* Python values                                                           *)
(***************************************************************************)
PNone == [t |-> "none"]
PBool(b) == [t |-> "bool", b |-> b]
PInt(n) == [t |-> "int", n |-> n]
PStr(s) == [t |-> "str", s |-> s]
PTuple(items) == [t |-> "tuple", items |-> items]
Missing == [t |-> "missing"]

Digits == {"0", "1", "2", "3", "4", "5", "6", "7", "8", "9"}

DigitVal(c) ==
    CASE c = "0" -> 0 [] c = "1" -> 1 [] c = "2" -> 2 [] c = "3" -> 3
      [] c = "4" -> 4 [] c = "5" -> 5 [] c = "6" -> 6 [] c = "7" -> 7
      [] c = "8" -> 8 [] c = "9" -> 9

DigitChar(d) == SubSeq(<<"0", "1", "2", "3", "4", "5", "6", "7", "8", "9">>, d + 1, d + 1)

AllDigits(s) == \A i \in 1..Len(s) : s[i] \in Digits

RECURSIVE DigitsToNat(_)
DigitsToNat(s) ==
    IF s = <<>> THEN 0
    ELSE 10 * DigitsToNat(SubSeq(s, 1, Len(s) - 1)) + DigitVal(s[Len(s)])

RECURSIVE NatToDigits(_)
NatToDigits(n) ==
    IF n < 10 THEN DigitChar(n)
    ELSE NatToDigits(n \div 10) \o DigitChar(n % 10)

\* str(n) of a Python int
IntToText(n) == IF n < 0 THEN <<"-">> \o NatToDigits(-n) ELSE NatToDigits(n)

\* The position of the first "." of s, or Len(s) + 1
DotPos(s) ==
    IF \E i \in 1..Len(s) : s[i] = "."
    THEN CHOOSE i \in 1..Len(s) : s[i] = "." /\ \A j \in 1..(i - 1) : s[j] # "."
    ELSE Len(s) + 1

\* A plain decimal numeral: [-] digits [. digits] with a digit on one side
\* of the point at least.  Both decimal.Decimal(str) and float(str) accept
\* these; over the alphabet of the model (digits, ".", "-", letters other
\* than those of inf, nan and the exponent) they accept nothing else.
Unsigned(s) == IF s # <<>> /\ s[1] = "-" THEN Tail(s) ELSE s

IsNumeral(s) ==
    LET u == Unsigned(s)
        p == DotPos(u)
        ip == SubSeq(u, 1, p - 1)
        fp == SubSeq(u, p + 1, Len(u))
    IN  /\ AllDigits(ip)
        /\ AllDigits(fp)
        /\ Len(ip) + Len(fp) > 0

\* int(decimal.Decimal(s)) of a numeral: the fraction is dropped, which
\* rounds toward zero.
NumeralToInt(s) ==
    LET u == Unsigned(s)
        magnitude == DigitsToNat(SubSeq(u, 1, DotPos(u) - 1))
    IN  IF u # s THEN 0 - magnitude ELSE magnitude

\* Python truth value
Truthy(v) ==
    CASE v.t = "none" -> FALSE
      [] v.t = "missing" -> FALSE
      [] v.t = "bool" -> v.b
      [] v.t = "int" -> v.n # 0
      [] v.t = "str" -> v.s # <<>>
      [] v.t = "tuple" -> v.items # <<>>

\* str(v), which is also what "{}".format(v) writes
Str(v) ==
    CASE v.t = "none" -> <<"N", "o", "n", "e">>
      [] v.t = "bool" -> IF v.b THEN <<"T", "r", "u", "e">> ELSE <<"F", "a", "l", "s", "e">>
      [] v.t = "int" -> IntToText(v.n)
      [] v.t = "str" -> v.s
      [] v.t = "tuple" -> <<"(", ")">>

\* Outcomes of a call: a value, or an exception raised
Ok(v) == [ok |-> TRUE, val |-> v]
Raise(exc) == [ok |-> FALSE, exc |-> exc]

(***************************************************************************)
(* Module constants (google_analytics_js.py, lines 21-39)                  *)
(***************************************************************************)
TRACK_SINGLE_DOMAIN == 1
TRACK_MULTIPLE_SUBDOMAINS == 2
TRACK_MULTIPLE_DOMAINS == 3

\* PROPERTY_ID_RE = re.compile(r'^UA-\d+-\d+$'), as PROPERTY_ID_RE.search(s)
PROPERTY_ID_RE(s) ==
    /\ Len(s) >= 6
    /\ SubSeq(s, 1, 3) = <<"U", "A", "-">>
    /\ \E i \in 5..(Len(s) - 1) :
          /\ s[i] = "-"
          /\ AllDigits(SubSeq(s, 4, i - 1))
          /\ AllDigits(SubSeq(s, i + 1, Len(s)))

REQUIRE_DISPLAY_FEATURES == [stmt |-> "require", plugin |-> "displayfeatures"]

\* CUSTOM_VAR_CODE.format(name=name, value=value): ga('set', '<name>', <value>);
CUSTOM_VAR_CODE(name, value) == [stmt |-> "set", name |-> Str(name), value |-> Str(value)]

ANONYMIZE_IP_CODE ==
    [stmt |-> "set",
     name |-> <<"a", "n", "o", "n", "y", "m", "i", "z", "e", "I", "p">>,
     value |-> <<"t", "r", "u", "e">>]

\* json.dumps of one value of create_fields
JsonLiteral(v) ==
    CASE v.t = "bool" -> IF v.b THEN <<"t", "r", "u", "e">> ELSE <<"f", "a", "l", "s", "e">>
      [] v.t = "int" -> IntToText(v.n)
      [] v.t = "str" -> <<"\"">> \o v.s \o <<"\"">>
      [] v.t = "none" -> <<"n", "u", "l", "l">>

\* json.dumps(create_fields): each key with the literal written for it
json_dumps(d) == [k \in DOMAIN d |-> JsonLiteral(d[k])]

\* SETUP_CODE.format(property_id=..., create_fields=..., commands=...): the
\* statements of the script in the order the template writes them.
SETUP_CODE(property_id, create_fields, commands) ==
    <<[stmt |-> "script_open"],
      [stmt |-> "loader"],
      [stmt |-> "create", property_id |-> Str(property_id), fields |-> create_fields]>>
    \o commands
    \o <<[stmt |-> "send", hit |-> "pageview"], [stmt |-> "script_close"]>>

DISABLED_PLACEHOLDER ==
    <<[stmt |-> "comment", text |-> "Google Analytics disabled due to no Property_ID"]>>

AnalyticalException(msg) == [type |-> "AnalyticalException", msg |-> msg]
PyError(type) == [type |-> type, msg |-> ""]

(***************************************************************************)
(* django.conf.settings and analytical.utils                               *)
(***************************************************************************)
\* getattr(settings, name, default)
getattr(s, name, default) == IF s[name] = Missing THEN default ELSE s[name]

\* value_re.search(text), for the compiled patterns of the module
re_search(value_re, text) ==
    CASE value_re = "PROPERTY_ID_RE" -> PROPERTY_ID_RE(text)

\* analytical.utils.get_required_setting(setting, value_re, invalid_msg):
\* the setting as a string, or AnalyticalException when it is missing,
\* empty, or does not match value_re.
get_required_setting(s, setting, value_re) ==
    IF s[setting] = Missing THEN Raise(AnalyticalException("setting not found"))
    ELSE IF ~Truthy(s[setting]) THEN Raise(AnalyticalException("setting is not set"))
    ELSE IF ~re_search(value_re, Str(s[setting]))
         THEN Raise(AnalyticalException("must be a string looking like 'UA-XXXXXX-Y'"))
    ELSE Ok(PStr(Str(s[setting])))

\* analytical.utils.get_domain(context, prefix): the domain name the context
\* resolves to, or None
get_domain(ctx, prefix) == ctx.domain

\* GoogleAnalyticsJsNode._identify(user): getattr(user, 'id', None)
_identify(user) == IF "id" \in DOMAIN user THEN user.id ELSE PNone

\* analytical.utils.get_identity(context, prefix, identity_func): the identity
\* the context carries, else identity_func (the node's _identify) of the
\* context's user, else None
get_identity(ctx, prefix) ==
    IF ctx.identity # PNone THEN ctx.identity
    ELSE IF ctx.user # PNone THEN _identify(ctx.user)
    ELSE PNone

\* analytical.utils.is_internal_ip(context, prefix)
is_internal_ip(ctx, prefix) == ctx.internal

\* analytical.utils.disable_html(html, service): html inside an HTML comment
disable_html(html, service) ==
    <<[stmt |-> "comment_open", service |-> service]>>
    \o html
    \o <<[stmt |-> "comment_close"]>>

(***************************************************************************)
(* GoogleAnalyticsJsNode                                                   *)
(*                                                                         *)
(* A method's outcome is [ok, val, calls] or [ok, exc, calls]: calls is    *)
(* the set of analytical.utils lookups the method made before it returned  *)
(* or raised.                                                              *)
(***************************************************************************)
Returns(v, calls) == [ok |-> TRUE, val |-> v, calls |-> calls]
Raises(exc, calls) == [ok |-> FALSE, exc |-> exc, calls |-> calls]

\* Fault: __init__ that reads the setting without checking it in either mode
GoogleAnalyticsJsNode_unchecked(s, is_required) ==
    Ok([property_id |-> getattr(s, "GOOGLE_ANALYTICS_JS_PROPERTY_ID", PNone)])

\* GoogleAnalyticsJsNode.__init__(self, is_required): the node, or the
\* exception of get_required_setting
GoogleAnalyticsJsNode(s, is_required) ==
    IF is_required
    THEN LET r == get_required_setting(s, "GOOGLE_ANALYTICS_JS_PROPERTY_ID", "PROPERTY_ID_RE")
         IN  IF r.ok THEN Ok([property_id |-> r.val]) ELSE r
    ELSE Ok([property_id |-> getattr(s, "GOOGLE_ANALYTICS_JS_PROPERTY_ID", PNone)])

\* Fault: _get_domain_fields that sets allowLinker for every style but
\* single-domain
_get_domain_fields_always_linker(s, ctx) ==
    LET tracking_type == getattr(s, "GOOGLE_ANALYTICS_TRACKING_STYLE", PInt(TRACK_SINGLE_DOMAIN))
        domain == get_domain(ctx, "google_analytics")
    IN  IF tracking_type = PInt(TRACK_SINGLE_DOMAIN) THEN Returns(<<>>, {})
        ELSE IF domain = PNone
             THEN Raises(AnalyticalException(
                      "tracking multiple domains with Google Analytics requires a domain name"),
                      {"get_domain"})
        ELSE Returns(("legacyCookieDomain" :> domain) @@ ("allowLinker" :> PBool(TRUE)),
                     {"get_domain"})

_get_domain_fields(s, ctx) ==
    LET tracking_type == getattr(s, "GOOGLE_ANALYTICS_TRACKING_STYLE", PInt(TRACK_SINGLE_DOMAIN))
    IN  IF tracking_type = PInt(TRACK_SINGLE_DOMAIN)
        THEN Returns(<<>>, {})
        ELSE LET domain == get_domain(ctx, "google_analytics")
             IN  IF domain = PNone
                 THEN Raises(AnalyticalException(
                          "tracking multiple domains with Google Analytics requires a domain name"),
                          {"get_domain"})
                 ELSE Returns(
                          IF tracking_type = PInt(TRACK_MULTIPLE_DOMAINS)
                          THEN ("legacyCookieDomain" :> domain) @@ ("allowLinker" :> PBool(TRUE))
                          ELSE ("legacyCookieDomain" :> domain),
                          {"get_domain"})

\* int(decimal.Decimal(v))
IntOfDecimal(v) ==
    CASE v.t = "int" -> Ok(v.n)
      [] v.t = "bool" -> Ok(IF v.b THEN 1 ELSE 0)
      [] v.t = "str" -> IF IsNumeral(v.s) THEN Ok(NumeralToInt(v.s))
                        ELSE Raise(PyError("decimal.InvalidOperation"))
      [] OTHER -> Raise(PyError("TypeError"))

\* Lines 119-125: the fields with siteSpeedSampleRate added when configured
site_speed_sample_rate_field(s, other_fields) ==
    LET site_speed_sample_rate ==
            getattr(s, "GOOGLE_ANALYTICS_SITE_SPEED_SAMPLE_RATE", PBool(FALSE))
        value == IntOfDecimal(site_speed_sample_rate)
    IN  IF site_speed_sample_rate = PBool(FALSE) THEN Ok(other_fields)
        ELSE IF ~value.ok THEN value
        ELSE IF ~(0 <= value.val /\ value.val <= 100)
             THEN Raise(AnalyticalException(
                      "'GOOGLE_ANALYTICS_SITE_SPEED_SAMPLE_RATE' must be >= 0 and <= 100"))
        ELSE Ok(("siteSpeedSampleRate" :> PInt(value.val)) @@ other_fields)

\* Lines 127-132: the fields with sampleRate added when configured
sample_rate_field(s, other_fields) ==
    LET sample_rate == getattr(s, "GOOGLE_ANALYTICS_SAMPLE_RATE", PBool(FALSE))
        value == IntOfDecimal(sample_rate)
    IN  IF sample_rate = PBool(FALSE) THEN Ok(other_fields)
        ELSE IF ~value.ok THEN value
        ELSE IF ~(0 <= value.val /\ value.val <= 100)
             THEN Raise(AnalyticalException(
                      "'GOOGLE_ANALYTICS_SAMPLE_RATE' must be >= 0 and <= 100"))
        ELSE Ok(("sampleRate" :> PInt(value.val)) @@ other_fields)

\* Lines 134-139: the fields with cookieExpires added when configured
cookie_expires_field(s, other_fields) ==
    LET cookie_expires == getattr(s, "GOOGLE_ANALYTICS_COOKIE_EXPIRATION", PBool(FALSE))
        value == IntOfDecimal(cookie_expires)
    IN  IF cookie_expires = PBool(FALSE) THEN Ok(other_fields)
        ELSE IF ~value.ok THEN value
        ELSE IF value.val < 0
             THEN Raise(AnalyticalException(
                      "'GOOGLE_ANALYTICS_COOKIE_EXPIRATION' must be >= 0"))
        ELSE Ok(("cookieExpires" :> PInt(value.val)) @@ other_fields)

_get_other_create_fields(s, ctx) ==
    LET calls == {"get_identity"}
        user_identity == get_identity(ctx, "google_analytics")
        f0 == IF user_identity # PNone
              THEN ("userId" :> PStr(Str(user_identity)))
              ELSE <<>>
        f1 == site_speed_sample_rate_field(s, f0)
        f2 == sample_rate_field(s, f1.val)
        f3 == cookie_expires_field(s, f2.val)
    IN  IF ~f1.ok THEN Raises(f1.exc, calls)
        ELSE IF ~f2.ok THEN Raises(f2.exc, calls)
        ELSE IF ~f3.ok THEN Raises(f3.exc, calls)
        ELSE Returns(f3.val, calls)

\* var[i] of a context value (i counted from 0)
GetItem(var, i) ==
    CASE var.t = "tuple" -> IF i < Len(var.items) THEN Ok(var.items[i + 1])
                            ELSE Raise(PyError("IndexError"))
      [] var.t = "str" -> IF i < Len(var.s) THEN Ok(PStr(<<var.s[i + 1]>>))
                          ELSE Raise(PyError("IndexError"))
      [] OTHER -> Raise(PyError("TypeError"))

\* float(value): whether it returns, and what it raises when it does not
Float(value) ==
    CASE value.t = "int" -> Ok(TRUE)
      [] value.t = "bool" -> Ok(TRUE)
      [] value.t = "str" -> IF IsNumeral(value.s) THEN Ok(TRUE)
                            ELSE Raise(PyError("ValueError"))
      [] OTHER -> Raise(PyError("TypeError"))

\* "'{}'".format(value)
Quoted(value) == PStr(<<"'">> \o Str(value) \o <<"'">>)

\* Fault: a loop body that quotes every value
custom_var_command_always_quoted(var) ==
    LET name == GetItem(var, 0)
        value == GetItem(var, 1)
    IN  IF ~name.ok THEN name
        ELSE IF ~value.ok THEN value
        ELSE Ok(CUSTOM_VAR_CODE(name.val, Quoted(value.val)))

\* Lines 153-162: the body of the loop of _get_custom_var_commands for one
\* var: the command, or the exception that leaves the loop
custom_var_command(var) ==
    LET name == GetItem(var, 0)
        value == GetItem(var, 1)
        parsed == Float(value.val)
    IN  IF ~name.ok THEN name
        ELSE IF ~value.ok THEN value
        ELSE IF parsed.ok THEN Ok(CUSTOM_VAR_CODE(name.val, value.val))
        ELSE IF parsed.exc.type = "ValueError"
             THEN Ok(CUSTOM_VAR_CODE(name.val, Quoted(value.val)))
        ELSE parsed

\* context.get('google_analytics_var%s' % i)
context_get_var(ctx, i) == IF i \in DOMAIN ctx.vars THEN ctx.vars[i] ELSE PNone

\* Lines 147-150: the (i, v) with v not None, for i in range(1, 6), in order
RECURSIVE custom_var_params(_, _)
custom_var_params(ctx, i) ==
    IF i >= 6 THEN <<>>
    ELSE (IF context_get_var(ctx, i) # PNone
          THEN <<context_get_var(ctx, i)>> ELSE <<>>)
         \o custom_var_params(ctx, i + 1)

\* Lines 151-163: the loop over params
RECURSIVE custom_var_loop(_, _)
custom_var_loop(params, commands) ==
    IF params = <<>> THEN Ok(commands)
    ELSE LET c == custom_var_command(Head(params))
         IN  IF ~c.ok THEN c
             ELSE custom_var_loop(Tail(params), Append(commands, c.val))

_get_custom_var_commands(ctx) ==
    LET r == custom_var_loop(custom_var_params(ctx, 1), <<>>)
    IN  IF r.ok THEN Returns(r.val, {}) ELSE Raises(r.exc, {})

_get_other_commands(s, ctx) ==
    IF Truthy(getattr(s, "GOOGLE_ANALYTICS_ANONYMIZE_IP", PBool(FALSE)))
    THEN Returns(<<ANONYMIZE_IP_CODE>>, {})
    ELSE Returns(<<>>, {})

\* Fault: REQUIRE_DISPLAY_FEATURES appended instead of inserted at index 0
insert_display_features_appended(s, commands) ==
    IF Truthy(getattr(s, "GOOGLE_ANALYTICS_DISPLAY_ADVERTISING", PBool(FALSE)))
    THEN commands \o <<REQUIRE_DISPLAY_FEATURES>>
    ELSE commands

\* Lines 84-86: commands with REQUIRE_DISPLAY_FEATURES inserted at index 0
\* when GOOGLE_ANALYTICS_DISPLAY_ADVERTISING is set
insert_display_features(s, commands) ==
    LET display_features == getattr(s, "GOOGLE_ANALYTICS_DISPLAY_ADVERTISING", PBool(FALSE))
    IN  IF Truthy(display_features)
        THEN <<REQUIRE_DISPLAY_FEATURES>> \o commands
        ELSE commands

\* Fault: the internal-IP test dropped
disable_if_internal_never(ctx, html) == html

\* Lines 93-95: html, disabled when the request comes from an internal IP
disable_if_internal(ctx, html) ==
    IF is_internal_ip(ctx, "GOOGLE_ANALYTICS")
    THEN disable_html(html, "Google Analytics")
    ELSE html

\* Lines 79-95 of render: the snippet of a node that has a property ID
render_snippet(self, s, ctx) ==
    LET domain_fields == _get_domain_fields(s, ctx)
        other_fields == _get_other_create_fields(s, ctx)
        create_fields == other_fields.val @@ domain_fields.val
        custom == _get_custom_var_commands(ctx)
        other == _get_other_commands(s, ctx)
        commands == insert_display_features(s, custom.val \o other.val)
        html == SETUP_CODE(self.property_id, json_dumps(create_fields), commands)
        built == domain_fields.calls \cup other_fields.calls
    IN  IF ~domain_fields.ok THEN domain_fields
        ELSE IF ~other_fields.ok THEN Raises(other_fields.exc, built)
        ELSE IF ~custom.ok THEN Raises(custom.exc, built)
        ELSE Returns(disable_if_internal(ctx, html), built \cup {"is_internal_ip"})

\* Fault: render that tests the setting in force instead of self.property_id
render_testing_setting(self, s, ctx) ==
    IF ~Truthy(getattr(s, "GOOGLE_ANALYTICS_JS_PROPERTY_ID", PNone))
    THEN Returns(DISABLED_PLACEHOLDER, {})
    ELSE render_snippet(self, s, ctx)

\* GoogleAnalyticsJsNode.render(self, context)
render(self, s, ctx) ==
    IF ~Truthy(self.property_id)
    THEN Returns(DISABLED_PLACEHOLDER, {})
    ELSE render_snippet(self, s, ctx)

(***************************************************************************)
(* The state machine.  The settings and the template context belong to the *)
(* host framework, which changes them one key at a time; the tag, the node *)
(* and contribute_to_analytical are called on the state they find.  An     *)
(* action takes the sets P its inputs are drawn from.                      *)
(***************************************************************************)
SettingNames ==
    {"GOOGLE_ANALYTICS_JS_PROPERTY_ID",
     "GOOGLE_ANALYTICS_TRACKING_STYLE",
     "GOOGLE_ANALYTICS_SITE_SPEED_SAMPLE_RATE",
     "GOOGLE_ANALYTICS_SAMPLE_RATE",
     "GOOGLE_ANALYTICS_COOKIE_EXPIRATION",
     "GOOGLE_ANALYTICS_ANONYMIZE_IP",
     "GOOGLE_ANALYTICS_DISPLAY_ADVERTISING"}

\* The custom-variable keys a context may carry: google_analytics_var0 ..
\* google_analytics_var<MaxVarKey>
MaxVarKey == 6
VarKeys == 0..MaxVarKey

\* The nodes a run constructs at most: where the claims compare nodes, and
\* where one node is rendered under many settings or contexts
MaxNodes == 2
MaxNodesOne == 1

NoCall == [call |-> "none"]

EmptyContext ==
    [vars |-> [i \in VarKeys |-> PNone],
     domain |-> PNone,
     identity |-> PNone,
     user |-> PNone,
     internal |-> FALSE]

Init ==
    /\ settings = [name \in SettingNames |-> Missing]
    /\ context = EmptyContext
    /\ nodes = <<>>
    /\ registry = {}
    /\ last = NoCall

\* The host changes one setting (override_settings, a settings module edit)
ChangeSetting(P) ==
    \E name \in SettingNames :
        \E v \in P.settings[name] :
            /\ settings' = [settings EXCEPT ![name] = v]
            /\ last' = NoCall
            /\ UNCHANGED <<context, nodes, registry>>

\* The host puts one key of the context of the request being served
ChangeContext(P) ==
    /\ \/ \E i \in VarKeys : \E v \in P.vars[i] :
              context' = [context EXCEPT !.vars[i] = v]
       \/ \E d \in P.domains : context' = [context EXCEPT !.domain = d]
       \/ \E u \in P.users : context' = [context EXCEPT !.user = u]
       \/ \E id \in P.identities : context' = [context EXCEPT !.identity = id]
       \/ \E b \in P.internals : context' = [context EXCEPT !.internal = b]
    /\ last' = NoCall
    /\ UNCHANGED <<settings, nodes, registry>>

\* google_analytics_js(parser, token), lines 45-61, with bits the result of
\* token.split_contents()
TagBits ==
    {<<"google_analytics_js">>,
     <<"google_analytics_js", "is_required">>,
     <<"google_analytics_js", "is_optional">>}

google_analytics_js(P, bits) ==
    LET is_required == Len(bits) > 1 /\ bits[2] = "is_required"
        out == IF Len(bits) > 1 /\ bits[2] # "is_required"
               THEN Raise(PyError("TemplateSyntaxError"))
               ELSE GoogleAnalyticsJsNode(settings, is_required)
    IN  /\ out.ok => Len(nodes) < P.maxNodes
        /\ nodes' = IF out.ok
                    THEN Append(nodes, [self |-> out.val, is_required |-> is_required])
                    ELSE nodes
        /\ last' = [call |-> "google_analytics_js", bits |-> bits, out |-> out]
        /\ UNCHANGED <<settings, context, registry>>

Tag(P) == \E bits \in TagBits : google_analytics_js(P, bits)

\* contribute_to_analytical(add_node), lines 174-176
contribute_to_analytical ==
    LET out == GoogleAnalyticsJsNode(settings, TRUE)
    IN  /\ registry' = IF out.ok
                       THEN registry \cup {<<"head_bottom", "GoogleAnalyticsJsNode">>}
                       ELSE registry
        /\ last' = [call |-> "contribute_to_analytical", out |-> out]
        /\ UNCHANGED <<settings, context, nodes>>

\* Fault: a render that also re-reads the property ID into the node
Render_rereading_property_id(n) ==
    /\ last' = [call |-> "render", node |-> n,
                out |-> render(nodes[n].self, settings, context)]
    /\ nodes' = [nodes EXCEPT ![n].self.property_id =
                     getattr(settings, "GOOGLE_ANALYTICS_JS_PROPERTY_ID", PNone)]
    /\ UNCHANGED <<settings, context, registry>>

\* The template engine renders node n with the context of the request
Render(n) ==
    /\ last' = [call |-> "render", node |-> n,
                out |-> render(nodes[n].self, settings, context)]
    /\ UNCHANGED <<settings, context, nodes, registry>>

RenderNode == \E n \in 1..Len(nodes) : Render(n)

Next(P) ==
    \/ ChangeSetting(P)
    \/ ChangeContext(P)
    \/ Tag(P)
    \/ contribute_to_analytical
    \/ RenderNode

(***************************************************************************)
(* Inputs                                                                  *)
(***************************************************************************)
ValidId == PStr(<<"U", "A", "-", "1", "-", "7">>)
EmptyId == PStr(<<>>)
NoDigitsId == PStr(<<"U", "A", "-", "-", "7">>)
TrailingId == PStr(<<"U", "A", "-", "1", "-", "7", "x">>)

Gold == PStr(<<"g", "o", "l", "d">>)
Plan == PStr(<<"p", "l", "a", "n">>)
Score == PStr(<<"s", "c", "o", "r", "e">>)
FortyTwo == PStr(<<"4", "2">>)
ExampleCom == PStr(<<"e", "x", "a", "m", "p", "l", "e", ".", "c", "o", "m">>)

User7 == [t |-> "user", id |-> PInt(7)]

Only(v) == {v}

\* Values of a numeric setting: an int or a decimal numeral in a string
\* (decimal.Decimal takes both).
RateValues ==
    {Missing, PInt(0), PInt(-1), PInt(101),
     PStr(<<"1", "0", "0", ".", "0", "0">>),
     PStr(<<"1", "0", "0", ".", "5">>),
     PStr(<<"-", "0", ".", "5">>)}

ExpirationValues ==
    {Missing, PInt(0), PInt(-1), PInt(101), PStr(<<"-", "0", ".", "5">>)}

StyleValues ==
    {Missing, PInt(TRACK_SINGLE_DOMAIN), PInt(TRACK_MULTIPLE_SUBDOMAINS),
     PInt(TRACK_MULTIPLE_DOMAINS)}

\* Inputs that vary the settings: one node, a context with or without a domain
\* and a user
SettingsInputs ==
    [settings |->
        [name \in SettingNames |->
            CASE name = "GOOGLE_ANALYTICS_JS_PROPERTY_ID" -> {Missing, ValidId}
              [] name = "GOOGLE_ANALYTICS_TRACKING_STYLE" -> StyleValues
              [] name = "GOOGLE_ANALYTICS_SITE_SPEED_SAMPLE_RATE" -> RateValues
              [] name = "GOOGLE_ANALYTICS_SAMPLE_RATE" -> RateValues
              [] name = "GOOGLE_ANALYTICS_COOKIE_EXPIRATION" -> ExpirationValues
              [] OTHER -> Only(Missing)],
     vars |-> [i \in VarKeys |-> Only(PNone)],
     domains |-> {PNone, ExampleCom},
     users |-> {PNone, User7},
     identities |-> Only(PNone),
     internals |-> Only(FALSE),
     maxNodes |-> MaxNodesOne]

\* The entries a context may carry at custom-variable key i
VarValues(i) ==
    CASE i = 1 -> {PNone, PTuple(<<Plan, Gold>>), PTuple(<<Plan, PNone>>)}
      [] i = 2 -> {PNone, PTuple(<<Score, FortyTwo>>), PTuple(<<Plan>>)}
      [] i = 3 -> {PNone, PTuple(<<Score, PInt(7)>>), PInt(5)}
      [] i = 4 -> {PNone, PTuple(<<Score, PStr(<<"-", "1", ".", "5">>)>>),
                   PStr(<<"a", "b">>)}
      [] i = 5 -> {PNone, PTuple(<<Plan, PStr(<<"4", ".", "2", ".", "1">>)>>)}
      [] OTHER -> {PNone, PTuple(<<Plan, Gold>>)}

\* Inputs that vary the custom variables of the context and the two flags
VarsInputs ==
    [settings |->
        [name \in SettingNames |->
            CASE name = "GOOGLE_ANALYTICS_JS_PROPERTY_ID" -> {Missing, ValidId}
              [] name = "GOOGLE_ANALYTICS_ANONYMIZE_IP" -> {Missing, PBool(TRUE)}
              [] name = "GOOGLE_ANALYTICS_DISPLAY_ADVERTISING" -> {Missing, PBool(TRUE)}
              [] OTHER -> Only(Missing)],
     vars |-> [i \in VarKeys |-> VarValues(i)],
     domains |-> Only(PNone),
     users |-> Only(PNone),
     identities |-> Only(PNone),
     internals |-> Only(FALSE),
     maxNodes |-> MaxNodesOne]

\* Inputs that vary the property ID and the nodes, with a valid and an invalid
\* value of the other settings
NodesInputs ==
    [settings |->
        [name \in SettingNames |->
            CASE name = "GOOGLE_ANALYTICS_JS_PROPERTY_ID" ->
                     {Missing, EmptyId, ValidId, NoDigitsId, TrailingId}
              [] name = "GOOGLE_ANALYTICS_TRACKING_STYLE" ->
                     {Missing, PInt(TRACK_MULTIPLE_DOMAINS)}
              [] name = "GOOGLE_ANALYTICS_SAMPLE_RATE" -> {Missing, PInt(101)}
              [] OTHER -> Only(Missing)],
     vars |-> [i \in VarKeys |-> IF i = 1 THEN {PNone, PTuple(<<Plan, Gold>>)}
                                 ELSE Only(PNone)],
     domains |-> {PNone, ExampleCom},
     users |-> Only(PNone),
     identities |-> Only(PNone),
     internals |-> {FALSE, TRUE},
     maxNodes |-> MaxNodes]

SpecSettings == Init /\ [][Next(SettingsInputs)]_vars
SpecVars == Init /\ [][Next(VarsInputs)]_vars
SpecNodes == Init /\ [][Next(NodesInputs)]_vars

(***************************************************************************)
(* Properties                                                              *)
(***************************************************************************)
PropertyIdSetting == settings["GOOGLE_ANALYTICS_JS_PROPERTY_ID"]
TrackingStyle == settings["GOOGLE_ANALYTICS_TRACKING_STYLE"]

\* The last call was a render; the node it was made on
Rendered == last.call = "render"
RenderedNode == nodes[last.node]
\* ... on a node that holds a property ID
ActiveRender == Rendered /\ Truthy(RenderedNode.self.property_id)
Returned == last.out.ok
RaisedConfigurationError == ~last.out.ok /\ last.out.exc.type = "AnalyticalException"

\* The script inside a disabling comment, or the script itself
Unwrapped(html) ==
    IF html[1].stmt = "comment_open" THEN SubSeq(html, 2, Len(html) - 1) ELSE html

\* The create-fields written into the ga('create', ...) statement
CreateFields(html) == Unwrapped(html)[3].fields

MissingDomainMessage ==
    "tracking multiple domains with Google Analytics requires a domain name"

\* C1: a node built in non-required mode that holds no property ID (None or
\* the empty string) renders the disabled placeholder and nothing else,
\* whatever the context and the other settings: no lookup is made and
\* nothing is raised.
C1_DisabledPlaceholder ==
    (/\ Rendered
     /\ ~RenderedNode.is_required
     /\ ~Truthy(RenderedNode.self.property_id))
    => /\ Returned
       /\ last.out.val = DISABLED_PLACEHOLDER
       /\ last.out.calls = {}

\* C1's case: the placeholder returned while the sample rate is out of range
\* and the multi-domain style has no domain
C1_Witness ==
    /\ Rendered
    /\ ~RenderedNode.is_required
    /\ RenderedNode.self.property_id \in {PNone, EmptyId}
    /\ settings["GOOGLE_ANALYTICS_SAMPLE_RATE"] = PInt(101)
    /\ TrackingStyle = PInt(TRACK_MULTIPLE_DOMAINS)
    /\ context.domain = PNone
    /\ context.internal
    /\ PropertyIdSetting = ValidId
    /\ last.out.val = DISABLED_PLACEHOLDER

\* The number a setting's value denotes: its sign, its integer part and
\* whether it has a fraction other than zero
Denoted(v) ==
    IF v.t = "int"
    THEN [neg |-> v.n < 0, int |-> IF v.n < 0 THEN 0 - v.n ELSE v.n, frac |-> FALSE]
    ELSE LET u == Unsigned(v.s)
             p == DotPos(u)
         IN  [neg |-> u # v.s,
              int |-> DigitsToNat(SubSeq(u, 1, p - 1)),
              frac |-> \E i \in (p + 1)..Len(u) : u[i] # "0"]

\* The value lies in 0..100 (hasMax) or is >= 0 (otherwise)
InRange(v, hasMax) ==
    LET d == Denoted(v)
    IN  /\ d.neg => (d.int = 0 /\ ~d.frac)
        /\ hasMax => (d.int < 100 \/ (d.int = 100 /\ ~d.frac))

NumericSettings ==
    {<<"GOOGLE_ANALYTICS_SAMPLE_RATE", "sampleRate", TRUE>>,
     <<"GOOGLE_ANALYTICS_SITE_SPEED_SAMPLE_RATE", "siteSpeedSampleRate", TRUE>>,
     <<"GOOGLE_ANALYTICS_COOKIE_EXPIRATION", "cookieExpires", FALSE>>}

\* C2: for each numeric setting and a node with a property ID: not configured,
\* its field is absent; configured inside its range, its field is the value
\* as an integer; configured outside its range, render raises
\* AnalyticalException.
C2_NumericSettings ==
    ActiveRender =>
        \A ns \in NumericSettings :
            LET v == settings[ns[1]]
            IN  /\ (v = Missing /\ Returned) =>
                       ns[2] \notin DOMAIN CreateFields(last.out.val)
                /\ (v # Missing /\ InRange(v, ns[3]) /\ Returned) =>
                       /\ ns[2] \in DOMAIN CreateFields(last.out.val)
                       /\ CreateFields(last.out.val)[ns[2]] = IntToText(Denoted(v).int)
                /\ (v # Missing /\ ~InRange(v, ns[3])) => RaisedConfigurationError

\* C3: the domain fields follow the tracking style.  Single-domain (or no
\* style set): no legacyCookieDomain, no allowLinker, get_domain not called.
\* Multi-subdomain with a domain: legacyCookieDomain only.  Multi-domain with
\* a domain: legacyCookieDomain and allowLinker = true.  Either of the two
\* with no domain: AnalyticalException for the missing domain.
C3_DomainFields ==
    ActiveRender =>
        LET single == TrackingStyle \in {Missing, PInt(TRACK_SINGLE_DOMAIN)}
        IN  /\ single => "get_domain" \notin last.out.calls
            /\ (single /\ Returned) =>
                   DOMAIN CreateFields(last.out.val)
                       \cap {"legacyCookieDomain", "allowLinker"} = {}
            /\ (~single /\ context.domain = PNone) =>
                   /\ RaisedConfigurationError
                   /\ last.out.exc.msg = MissingDomainMessage
            /\ (~single /\ context.domain # PNone /\ Returned) =>
                   /\ "legacyCookieDomain" \in DOMAIN CreateFields(last.out.val)
                   /\ CreateFields(last.out.val).legacyCookieDomain
                          = <<"\"">> \o context.domain.s \o <<"\"">>
                   /\ "allowLinker" \in DOMAIN CreateFields(last.out.val)
                          <=> TrackingStyle = PInt(TRACK_MULTIPLE_DOMAINS)
                   /\ TrackingStyle = PInt(TRACK_MULTIPLE_DOMAINS) =>
                          CreateFields(last.out.val).allowLinker = <<"t", "r", "u", "e">>

\* C3's case: a multi-subdomain snippet with the domain example.com
C3_Witness ==
    /\ ActiveRender
    /\ Returned
    /\ TrackingStyle = PInt(TRACK_MULTIPLE_SUBDOMAINS)
    /\ context.domain = ExampleCom
    /\ context.user = User7
    /\ DOMAIN CreateFields(last.out.val) = {"legacyCookieDomain", "sampleRate", "userId"}

\* The custom-variable keys render reads that the context carries
PresentKeys == {i \in 1..5 : context.vars[i] # PNone}

\* The place among the custom-variable commands of the command of key i
Rank(i) == Cardinality({j \in PresentKeys : j <= i})

\* The 'set' commands of the script other than the anonymize-IP command
CustomCommands(html) ==
    SelectSeq(Unwrapped(html), LAMBDA st : st.stmt = "set" /\ st # ANONYMIZE_IP_CODE)

\* var[k - 1] of a context entry that has it
EntryItem(e, k) == IF e.t = "tuple" THEN e.items[k] ELSE PStr(<<e.s[k]>>)

\* float(value) returns
ParsesAsFloat(value) ==
    \/ value.t \in {"int", "bool"}
    \/ value.t = "str" /\ IsNumeral(value.s)

\* A (name, value) pair whose value is a string or a number
IsPair(e) == e.t = "tuple" /\ Len(e.items) = 2 /\ e.items[2].t \in {"str", "int"}

\* C4: when every entry at the keys 1..5 is a (name, value) pair, render
\* returns a snippet; and a snippet has exactly one 'set' command for each
\* key 1..5 the context carries, in ascending key order, and none for other
\* keys, with the value written bare when float() parses it and within
\* single quotes otherwise.
C4_CustomVarCommands ==
    /\ (ActiveRender /\ \A i \in PresentKeys : IsPair(context.vars[i])) => Returned
    /\ (ActiveRender /\ Returned) =>
        LET cmds == CustomCommands(last.out.val)
        IN  /\ Len(cmds) = Cardinality(PresentKeys)
            /\ Len(cmds) <= 5
            /\ \A i \in PresentKeys :
                   LET value == EntryItem(context.vars[i], 2)
                   IN  /\ cmds[Rank(i)].name = Str(EntryItem(context.vars[i], 1))
                       /\ cmds[Rank(i)].value =
                              IF ParsesAsFloat(value) THEN Str(value)
                              ELSE <<"'">> \o Str(value) \o <<"'">>

\* C4's case: ("plan", "gold") at key 1 and ("score", "42") at key 2, key 3
\* absent, key 4 present, and entries at the keys 0 and 6 that are not read
C4_Witness ==
    /\ ActiveRender
    /\ Returned
    /\ context.vars[0] # PNone
    /\ context.vars[6] # PNone
    /\ context.vars[1] = PTuple(<<Plan, Gold>>)
    /\ context.vars[2] = PTuple(<<Score, FortyTwo>>)
    /\ context.vars[3] = PNone
    /\ CustomCommands(last.out.val) =
           <<[stmt |-> "set", name |-> <<"p", "l", "a", "n">>,
              value |-> <<"'", "g", "o", "l", "d", "'">>],
             [stmt |-> "set", name |-> <<"s", "c", "o", "r", "e">>,
              value |-> <<"4", "2">>],
             [stmt |-> "set", name |-> <<"s", "c", "o", "r", "e">>,
              value |-> <<"-", "1", ".", "5">>]>>

DisplayAdvertising ==
    Truthy(getattr(settings, "GOOGLE_ANALYTICS_DISPLAY_ADVERTISING", PBool(FALSE)))
AnonymizeIp ==
    Truthy(getattr(settings, "GOOGLE_ANALYTICS_ANONYMIZE_IP", PBool(FALSE)))

\* C5: in a snippet the 'create' call is statement 3 and the one 'send
\* pageview' the last but one; the 'require displayfeatures' command is there
\* iff the display-advertising flag is set and then directly follows 'create',
\* before every other command; the anonymize-IP command is there iff the
\* anonymize flag is set and then directly precedes 'send', after every
\* custom-variable command.
C5_CommandOrder ==
    (ActiveRender /\ Returned) =>
        LET h == Unwrapped(last.out.val)
            n == Len(h)
        IN  /\ \A i \in 1..n : h[i].stmt = "create" <=> i = 3
            /\ \A i \in 1..n : h[i].stmt = "send" <=> i = n - 1
            /\ \A i \in 1..n : h[i].stmt \in {"set", "require"} => (3 < i /\ i < n - 1)
            /\ (\E i \in 1..n : h[i] = REQUIRE_DISPLAY_FEATURES) <=> DisplayAdvertising
            /\ \A i \in 1..n : h[i].stmt = "require" => i = 4
            /\ (\E i \in 1..n : h[i] = ANONYMIZE_IP_CODE) <=> AnonymizeIp
            /\ \A i \in 1..n : h[i] = ANONYMIZE_IP_CODE => i = n - 2
            /\ n = 5 + Len(CustomCommands(last.out.val))
                     + (IF DisplayAdvertising THEN 1 ELSE 0)
                     + (IF AnonymizeIp THEN 1 ELSE 0)

\* C5's case: both flags set and two custom variables or more
C5_Witness ==
    /\ ActiveRender
    /\ Returned
    /\ DisplayAdvertising
    /\ AnonymizeIp
    /\ Len(CustomCommands(last.out.val)) >= 2
    /\ last.out.val[4] = REQUIRE_DISPLAY_FEATURES
    /\ last.out.val[Len(last.out.val) - 2] = ANONYMIZE_IP_CODE

\* C9: with a property ID and valid settings render returns a snippet for
\* every context; it raises nothing but AnalyticalException.
C9_NoOtherError ==
    ActiveRender => (Returned \/ RaisedConfigurationError)

\* C6: with a property ID, a request from an internal IP gets the snippet of
\* the same request from elsewhere, unchanged, inside the disabling comment
\* of 'Google Analytics'; any other request gets the snippet bare.
C6_InternalTraffic ==
    (ActiveRender /\ Returned) =>
        LET external == render(RenderedNode.self, settings,
                               [context EXCEPT !.internal = FALSE])
        IN  /\ external.ok
            /\ external.val[1].stmt = "script_open"
            /\ \A i \in 1..Len(external.val) :
                   external.val[i].stmt \notin {"comment_open", "comment_close"}
            /\ is_internal_ip(context, "GOOGLE_ANALYTICS") =>
                   last.out.val =
                       <<[stmt |-> "comment_open", service |-> "Google Analytics"]>>
                       \o external.val
                       \o <<[stmt |-> "comment_close"]>>
            /\ ~is_internal_ip(context, "GOOGLE_ANALYTICS") =>
                   last.out.val = external.val

\* C6's case: a snippet with a custom variable disabled for an internal IP
C6_Witness ==
    /\ ActiveRender
    /\ Returned
    /\ context.internal
    /\ context.vars[1] # PNone
    /\ last.out.val[1].stmt = "comment_open"
    /\ last.out.val[Len(last.out.val)].stmt = "comment_close"
    /\ Len(last.out.val) = 8

\* The property IDs among the inputs that have the form UA-<digits>-<digits>
WellFormedIds == {ValidId}

HeadBottom == <<"head_bottom", "GoogleAnalyticsJsNode">>

\* C7: the tag with is_required, and contribute_to_analytical, raise
\* AnalyticalException unless the property ID setting is there and has the
\* form UA-<digits>-<digits>: then the tag's node holds that ID, and
\* contribute_to_analytical registers the node class; when they raise, no
\* node is made and nothing is registered.  The tag without is_required
\* never raises, and its node holds the setting as it is (None when
\* missing), whatever its form.
C7_RequiredMode ==
    [][/\ (last'.call = "google_analytics_js" /\ Len(last'.bits) = 1) =>
              /\ last'.out.ok
              /\ nodes' = Append(nodes,
                     [self |-> [property_id |->
                                   IF PropertyIdSetting = Missing THEN PNone
                                   ELSE PropertyIdSetting],
                      is_required |-> FALSE])
       /\ (last'.call = "google_analytics_js" /\ Len(last'.bits) = 2
               /\ last'.bits[2] = "is_required") =>
              IF PropertyIdSetting \in WellFormedIds
              THEN /\ last'.out.ok
                   /\ nodes' = Append(nodes,
                          [self |-> [property_id |-> PropertyIdSetting],
                           is_required |-> TRUE])
              ELSE /\ ~last'.out.ok
                   /\ last'.out.exc.type = "AnalyticalException"
                   /\ nodes' = nodes
       /\ last'.call = "contribute_to_analytical" =>
              IF PropertyIdSetting \in WellFormedIds
              THEN last'.out.ok /\ registry' = registry \cup {HeadBottom}
              ELSE /\ ~last'.out.ok
                   /\ last'.out.exc.type = "AnalyticalException"
                   /\ registry' = registry
      ]_vars

\* C7's case: contribute_to_analytical refused a malformed ID and registered
\* nothing, while a node built without is_required holds another malformed ID
C7_Witness ==
    /\ last.call = "contribute_to_analytical"
    /\ ~last.out.ok
    /\ PropertyIdSetting = TrailingId
    /\ registry = {}
    /\ \E n \in 1..Len(nodes) :
           ~nodes[n].is_required /\ nodes[n].self.property_id = NoDigitsId

SampleRateMessage == "'GOOGLE_ANALYTICS_SAMPLE_RATE' must be >= 0 and <= 100"

PropertyIdMessages ==
    {"setting not found", "setting is not set",
     "must be a string looking like 'UA-XXXXXX-Y'"}

\* What makes render raise under the inputs: a multi-domain style with no
\* domain, a sample rate of 101
DomainMissing == TrackingStyle = PInt(TRACK_MULTIPLE_DOMAINS) /\ context.domain = PNone
SampleRateOutOfRange == settings["GOOGLE_ANALYTICS_SAMPLE_RATE"] = PInt(101)

====
